---------------------------- MODULE Spec2Model ----------------------------
(***************************************************************************)
(* Model of the life-automation-toolkit: the weather e-mail pipeline       *)
(* (weather_alert.py, started directly or through cli.py) and the two file *)
(* tools (file_sorter.py, media_renamer.py).                               *)
(*                                                                         *)
(* Representation.                                                         *)
(*  - A Python dict is a function from the keys it holds (a record);       *)
(*    d.get(k, default) is Get(d, k, default).                             *)
(*  - A value that may be None is a sequence: <<>> is None, <<v>> is v.    *)
(*  - A string is a sequence of tokens [k, s, v, d]: k = "text" carries    *)
(*    the characters s, k = "num" a rendered number v with d decimals,     *)
(*    k = "tag" an HTML tag, k = "entity" an HTML character reference.     *)
(*  - Floats are dyadic rationals, so that the arithmetic of the code is   *)
(*    exact: a probability is counted in 64ths, a temperature or a speed   *)
(*    in halves, a bearing in quarter degrees, rain in tenths of a mm.     *)
(*  - A datetime is the number of seconds since the epoch on the local     *)
(*    clock of its zone.                                                   *)
(*  - A file name is a sequence of one-character strings, a path the       *)
(*    sequence of the names below the folder the tool is pointed at, and   *)
(*    the file system a function from the paths that exist to 0 for a      *)
(*    directory and to the identity of its content for a file.             *)
(***************************************************************************)
EXTENDS Integers, Sequences, FiniteSets, TLC

VARIABLES
    pc,         \* position of the run: shell, main, fetch, compose, send, print, done, failed
    via_cli,    \* the run was started by cli.py's weather subcommand
    argv,       \* the command line weather_alert.py receives
    args,       \* the parsed arguments (argparse Namespace)
    environ,    \* os.environ after load_env: which settings are present
    host_tz,    \* the time zone of the machine the script runs on
    net,        \* what the network will answer: SMTP server behaviour
    geo,        \* Geo from geocode_city
    data,       \* the One Call response
    subject,    \* subject line, <<>> until composed
    html_body,  \* HTML body, <<>> until composed
    text_body,  \* plain-text body, <<>> until composed
    send_calls, \* number of calls of send_email
    outbox,     \* messages the SMTP server accepted
    stdout,     \* lines printed
    exit_code,  \* exit status of the process, -1 while running
    error,      \* the exception that ended the run, "" if none
    call,       \* formatter harness: the function applied and its argument
    ret,        \* formatter harness: the value returned
    platform,   \* file tools: the operating system, "posix" or "nt"
    fs0,        \* file tools: the file system when the tool was started
    fs          \* file tools: the file system, a function from paths to nodes

vars == <<pc, via_cli, argv, args, environ, host_tz, net, geo, data, subject,
          html_body, text_body, send_calls, outbox, stdout, exit_code, error,
          call, ret, platform, fs0, fs>>

\* what the file tools work on
Files == <<platform, fs0, fs>>

-----------------------------------------------------------------------------
(* Bounds of the model *)

MaxHourly == 2      \* longest hourly sequence in a response
MaxAlerts == 2      \* longest alerts list in a response

-----------------------------------------------------------------------------
(* Python primitives *)

None == <<>>
Some(v) == <<v>>

\* d.get(k, default)
Get(d, k, default) == IF k \in DOMAIN d THEN d[k] ELSE default

\* x or default, for a possibly-None number
OrElse(x, default) == IF x = None \/ x = Some(0) THEN default ELSE x[1]

Min(a, b) == IF a < b THEN a ELSE b
Max(a, b) == IF a > b THEN a ELSE b

\* int(num/den): truncation toward zero
PyInt(num, den) == IF num >= 0 THEN num \div den ELSE -((-num) \div den)

\* round(num/den): Python 3 rounds an exact half to the even neighbour
PyRound(num, den) ==
    LET q == num \div den
        r == num % den
    IN  IF 2 * r < den THEN q
        ELSE IF 2 * r > den THEN q + 1
        ELSE IF q % 2 = 0 THEN q ELSE q + 1

\* seq[:limit]; a negative limit drops that many items from the end
Take(seq, limit) ==
    IF limit >= 0 THEN SubSeq(seq, 1, Min(limit, Len(seq)))
    ELSE SubSeq(seq, 1, Max(0, Len(seq) + limit))

\* seq[1:]
Rest(seq) == SubSeq(seq, 2, Len(seq))

\* number of characters of str(n)
NumWidth(n) ==
    LET a == IF n < 0 THEN -n ELSE n
        digits == IF a < 10 THEN 1 ELSE IF a < 100 THEN 2 ELSE IF a < 1000 THEN 3 ELSE 4
    IN  digits + (IF n < 0 THEN 1 ELSE 0)

-----------------------------------------------------------------------------
(* Strings as token sequences *)

W(s) == [k |-> "text", s |-> s, v |-> 0, d |-> 0]
N(n) == [k |-> "num", s |-> "", v |-> n, d |-> 0]
Dec(n, places) == [k |-> "num", s |-> "", v |-> n, d |-> places]
Tag(s) == [k |-> "tag", s |-> s, v |-> 0, d |-> 0]
Entity(s, code) == [k |-> "entity", s |-> s, v |-> code, d |-> 0]

Spaces(n) == [i \in 1..Max(0, n) |-> W(" ")]

RECURSIVE Concat(_)
Concat(seqs) == IF seqs = <<>> THEN <<>> ELSE Head(seqs) \o Concat(Tail(seqs))

\* sep.join(items)
RECURSIVE Join(_, _)
Join(sep, items) ==
    IF items = <<>> THEN <<>>
    ELSE IF Len(items) = 1 THEN items[1]
    ELSE items[1] \o sep \o Join(sep, Tail(items))

\* html.escape(s): & < > " ' become character references
EscapeChar(t) ==
    IF t.k # "text" THEN t
    ELSE IF t.s = "&" THEN Entity("&amp;", 0)
    ELSE IF t.s = "<" THEN Entity("&lt;", 0)
    ELSE IF t.s = ">" THEN Entity("&gt;", 0)
    ELSE IF t.s = "\"" THEN Entity("&quot;", 0)
    ELSE IF t.s = "'" THEN Entity("&#x27;", 27)
    ELSE t

html_escape(s) == [i \in 1..Len(s) |-> EscapeChar(s[i])]

-----------------------------------------------------------------------------
(* weather_alert.py: helpers *)

pts == <<"N", "NNE", "NE", "ENE", "E", "ESE", "SE", "SSE",
         "S", "SSW", "SW", "WSW", "W", "WNW", "NW", "NNW">>

\* a variant of deg_to_compass: round(deg/22.5) in place of int(deg/22.5 + 0.5)
deg_to_compass_round(deg) == pts[(PyRound(deg, 90) % 16) + 1]

\* deg is counted in quarter degrees: deg/22.5 + 0.5 = (deg + 45)/90
deg_to_compass(deg) == pts[(PyInt(deg + 45, 90) % 16) + 1]

fmt_units(units) ==
    IF units = "imperial" THEN [temp |-> "deg F", speed |-> "mph", precip |-> "in"]
    ELSE IF units = "metric" THEN [temp |-> "deg C", speed |-> "m/s", precip |-> "mm"]
    ELSE [temp |-> "K", speed |-> "m/s", precip |-> "mm"]

\* A JSON list met on a safe_get path is the record [list |-> <<...>>];
\* everything else met on a path is a dict.
IsDict(x) == "list" \notin DOMAIN x

\* safe_get(d, path, default). The list index 0 of the code's paths is the
\* key "0": a list is no dict, so the walk stops there with the default.
RECURSIVE safe_get(_, _, _)
safe_get(d, path, default) ==
    IF path = <<>> THEN d
    ELSE IF ~IsDict(d) \/ Head(path) \notin DOMAIN d THEN default
    ELSE safe_get(d[Head(path)], Tail(path), default)

\* a variant of pop_pct: int(x * 100 + 0.5) in place of int(round(x * 100))
pop_pct_half_up(x) ==
    LET n == PyInt(OrElse(x, 0) * 100 + 32, 64)
    IN  Spaces(3 - NumWidth(n)) \o <<N(n), W("%")>>

\* x is None or a probability in 64ths; the result is f"{n:>3d}%"
pop_pct(x) ==
    LET n == PyRound(OrElse(x, 0) * 100, 64)
    IN  Spaces(3 - NumWidth(n)) \o <<N(n), W("%")>>

\* mm is counted in tenths of a millimetre; the quotient is <<num, den>> inches
mm_to_inches(mm) == <<mm, 254>>

\* f"{q:.2f}" of the quotient q
Fixed2(q) == Dec(PyRound(q[1] * 100, q[2]), 2)

\* f"{mm:.1f}" of tenths of a millimetre
Fixed1(mm) == Dec(mm, 1)

\* phase is counted in 64ths
moon_steps == <<
    <<0, "New">>, <<8, "Waxing crescent">>, <<16, "First quarter">>,
    <<24, "Waxing gibbous">>, <<32, "Full">>, <<40, "Waning gibbous">>,
    <<48, "Last quarter">>, <<56, "Waning crescent">>, <<64, "New">> >>

RECURSIVE MoonScan(_, _)
MoonScan(phase, steps) ==
    IF steps = <<>> THEN "New"
    ELSE IF phase <= Head(steps)[1] THEN Head(steps)[2]
    ELSE MoonScan(phase, Tail(steps))

\* a variant of moon_label: phase < edge in place of phase <= edge
RECURSIVE MoonScanStrict(_, _)
MoonScanStrict(phase, steps) ==
    IF steps = <<>> THEN "New"
    ELSE IF phase < Head(steps)[1] THEN Head(steps)[2]
    ELSE MoonScanStrict(phase, Tail(steps))

moon_label_strict(phase) == MoonScanStrict(phase, moon_steps)

\* phase is counted in 64ths, so that every edge of steps is a whole number
moon_label(phase) == MoonScan(phase, moon_steps)

weather_emoji(code) ==
    IF 200 <= code /\ code < 300 THEN "thunderstorm"
    ELSE IF 300 <= code /\ code < 600 THEN "rain"
    ELSE IF 600 <= code /\ code < 700 THEN "snow"
    ELSE IF 700 <= code /\ code < 800 THEN "fog"
    ELSE IF code = 800 THEN "sun"
    ELSE IF 801 <= code /\ code <= 804 THEN "cloud"
    ELSE "thermometer"

\* aqi is None or an integer
aqi_label(aqi) ==
    LET i == OrElse(aqi, 0)
    IN  IF i = 1 THEN "Good" ELSE IF i = 2 THEN "Fair" ELSE IF i = 3 THEN "Moderate"
        ELSE IF i = 4 THEN "Poor" ELSE IF i = 5 THEN "Very Poor" ELSE "n/a"

\* str.title() of the descriptions the provider sends
title(s) ==
    [i \in 1..Len(s) |->
        IF s[i] = W("light rain") THEN W("Light Rain")
        ELSE IF s[i] = W("clear sky") THEN W("Clear Sky")
        ELSE s[i]]

-----------------------------------------------------------------------------
(* Time *)

\* seconds east of UTC of a zone of the tz database (standard time)
UtcOffset(zone) ==
    IF zone = "America/New_York" THEN -18000
    ELSE IF zone = "Asia/Tokyo" THEN 32400
    ELSE 0

\* as_local(ts, tz_name): fromtimestamp(ts, utc).astimezone() converts to the
\* zone of the machine; tz_name is not used
as_local(ts, tz_name) == ts + UtcOffset(host_tz)

Hour12(t) == LET h == (t \div 3600) % 24 IN IF h % 12 = 0 THEN 12 ELSE h % 12
AmPm(t) == IF (t \div 3600) % 24 < 12 THEN "AM" ELSE "PM"
Minute(t) == (t \div 60) % 60
\* 1 January 1970 was a Thursday
DayName(t) == <<"Sun", "Mon", "Tue", "Wed", "Thu", "Fri", "Sat">>[(((t \div 86400) + 4) % 7) + 1]
\* month and day of the month, for December 1969 to February 1970
MonthName(t) ==
    LET days == t \div 86400
    IN  IF days < 0 THEN "Dec" ELSE IF days < 31 THEN "Jan" ELSE "Feb"
MonthDay(t) ==
    LET days == t \div 86400
    IN  IF days < 0 THEN 32 + days ELSE IF days < 31 THEN days + 1 ELSE days - 30

\* strftime("%-I:%M %p")
strftime_IMp(t) == <<N(Hour12(t)), W(":"), N(Minute(t)), W(" "), W(AmPm(t))>>
\* strftime("%-I %p")
strftime_Ip(t) == <<N(Hour12(t)), W(" "), W(AmPm(t))>>
\* strftime("%a")
strftime_a(t) == <<W(DayName(t))>>
\* strftime("%a %-I:%M %p")
strftime_aIMp(t) == <<W(DayName(t)), W(" ")>> \o strftime_IMp(t)
\* strftime("%a %b %-d")
strftime_abd(t) == <<W(DayName(t)), W(" "), W(MonthName(t)), W(" "), N(MonthDay(t))>>

-----------------------------------------------------------------------------
(* weather_alert.py: HTML/text builders. Each returns [html, txt]. *)

build_now_block(cur, units) ==
    LET u == fmt_units(units)
        desc == title(safe_get(cur, <<"weather", "0", "description">>, <<>>))
        code == safe_get(cur, <<"weather", "0", "id">>, 800)
        emoji == weather_emoji(code)
        temp == <<N(PyRound(Get(cur, "temp", 0), 2)), W(u.temp)>>
        feels == <<N(PyRound(Get(cur, "feels_like", 0), 2)), W(u.temp)>>
        humidity == <<N(Get(cur, "humidity", 0)), W("%")>>
        clouds == <<N(Get(cur, "clouds", 0)), W("%")>>
        uv == <<N(Get(cur, "uvi", 0))>>
        wind_spd == Get(cur, "wind_speed", 0)
        wind_deg == Get(cur, "wind_deg", 0)
        wind == <<N(PyRound(wind_spd, 2)), W(" "), W(u.speed), W(" "),
                  W(deg_to_compass(wind_deg))>>
        line == Concat(<<
            <<W(emoji), W(" ")>>, desc, <<W(". Temp ")>>, temp, <<W(", feels ")>>, feels,
            <<W(". Wind ")>>, wind, <<W(". Humidity ")>>, humidity, <<W(". UV ")>>, uv,
            <<W(". Clouds ")>>, clouds, <<W(".")>> >>)
        html_block == <<Tag("h3 style='margin:0.2rem 0'"), W("Now"), Tag("/h3"),
                        Tag("p style='margin:0.2rem 0'")>>
                      \o html_escape(line) \o <<Tag("/p")>>
    IN  [html |-> html_block, txt |-> line]

build_today_block(today, units, tz_name) ==
    LET u == fmt_units(units)
        desc == title(safe_get(today, <<"weather", "0", "description">>, <<>>))
        code == safe_get(today, <<"weather", "0", "id">>, 800)
        emoji == weather_emoji(code)
        tmin == <<N(PyRound(safe_get(today, <<"temp", "min">>, 0), 2)), W(u.temp)>>
        tmax == <<N(PyRound(safe_get(today, <<"temp", "max">>, 0), 2)), W(u.temp)>>
        pop == pop_pct(Get(today, "pop", None))
        rain_mm == Get(today, "rain", 0)
        snow_mm == Get(today, "snow", 0)
        rain_txt == IF u.precip = "in" THEN <<Fixed2(mm_to_inches(rain_mm)), W(" in")>>
                    ELSE <<Fixed1(rain_mm), W(" mm")>>
        snow_txt == IF u.precip = "in" THEN <<Fixed2(mm_to_inches(snow_mm)), W(" in")>>
                    ELSE <<Fixed1(snow_mm), W(" mm")>>
        sunrise == strftime_IMp(as_local(Get(today, "sunrise", 0), tz_name))
        sunset == strftime_IMp(as_local(Get(today, "sunset", 0), tz_name))
        moon == moon_label(Get(today, "moon_phase", 0))
        line == Concat(<<
            <<W(emoji), W(" Today: ")>>, desc, <<W(". High ")>>, tmax, <<W(", low ")>>, tmin,
            <<W(". POP ")>>, pop, <<W("; rain ")>>, rain_txt, <<W(", snow ")>>, snow_txt,
            <<W(". Sunrise ")>>, sunrise, <<W(", sunset ")>>, sunset,
            <<W(". "), W(moon), W(".")>> >>)
        html_block == <<Tag("h3 style='margin:0.8rem 0 0.2rem 0'"), W("Today"), Tag("/h3"),
                        Tag("p style='margin:0.2rem 0'")>>
                      \o html_escape(line) \o <<Tag("/p")>>
    IN  [html |-> html_block, txt |-> line]

\* One row of build_hours_table: the strings both renderings are made of
HourCells(h, units, tz_name) ==
    LET u == fmt_units(units)
        rain == safe_get(h, <<"rain", "1h">>, 0)
        snow == safe_get(h, <<"snow", "1h">>, 0)
    IN  [t |-> strftime_Ip(as_local(h.dt, tz_name)),
         temp |-> <<N(PyRound(Get(h, "temp", 0), 2)), W(u.temp)>>,
         pop |-> pop_pct(Get(h, "pop", None)),
         wdesc |-> title(safe_get(h, <<"weather", "0", "description">>, <<>>)),
         rain_txt |-> IF u.precip = "in" THEN <<Fixed2(mm_to_inches(rain))>>
                      ELSE <<Fixed1(rain)>>,
         snow_txt |-> IF u.precip = "in" THEN <<Fixed2(mm_to_inches(snow))>>
                      ELSE <<Fixed1(snow)>>]

HourRowHtml(c) ==
    Concat(<<
        <<Tag("tr"), Tag("td")>>, html_escape(c.t), <<Tag("/td")>>,
        <<Tag("td align='right'")>>, html_escape(c.temp), <<Tag("/td")>>,
        <<Tag("td align='right'")>>, html_escape(c.pop), <<Tag("/td")>>,
        <<Tag("td align='right'")>>, html_escape(c.rain_txt), <<Tag("/td")>>,
        <<Tag("td align='right'")>>, html_escape(c.snow_txt), <<Tag("/td")>>,
        <<Tag("td")>>, html_escape(c.wdesc), <<Tag("/td"), Tag("/tr")>> >>)

\* a variant of HourRowText that leaves the snow column out
HourRowText_no_snow(c) ==
    Concat(<<
        c.t, <<W("  ")>>, c.temp, <<W("  ")>>, c.pop, <<W("  rain ")>>, c.rain_txt,
        <<W("  ")>>, c.wdesc >>)

\* the column widths of the f-string (:>4, :>6, :>5) are white space and
\* are not counted
HourRowText(c) ==
    Concat(<<
        c.t, <<W("  ")>>, c.temp, <<W("  ")>>, c.pop, <<W("  rain ")>>, c.rain_txt,
        <<W("  snow ")>>, c.snow_txt, <<W("  ")>>, c.wdesc >>)

build_hours_table(hours, units, tz_name, limit) ==
    LET shown == Take(hours, limit)
        cells == [i \in 1..Len(shown) |-> HourCells(shown[i], units, tz_name)]
        rows_html == [i \in 1..Len(cells) |-> HourRowHtml(cells[i])]
        rows_text == [i \in 1..Len(cells) |-> HourRowText(cells[i])]
        header_html == <<Tag("tr"),
            Tag("th align='left'"), W("Time"), Tag("/th"),
            Tag("th align='right'"), W("Temp"), Tag("/th"),
            Tag("th align='right'"), W("POP"), Tag("/th"),
            Tag("th align='right'"), W("Rain"), Tag("/th"),
            Tag("th align='right'"), W("Snow"), Tag("/th"),
            Tag("th align='left'"), W("Desc"), Tag("/th"), Tag("/tr")>>
        table == <<Tag("table cellpadding='4' cellspacing='0'")>> \o header_html
                 \o Concat(rows_html) \o <<Tag("/table")>>
        txt == <<W("Time  Temp   POP   Rain   Snow  Description"), W("\n")>>
               \o Join(<<W("\n")>>, rows_text)
        html_block == <<Tag("h3 style='margin:0.8rem 0 0.2rem 0'"), W("Next "), N(limit),
                        W(" hours"), Tag("/h3")>> \o table
    IN  [html |-> html_block, txt |-> txt]

DayCells(d, units, tz_name) ==
    LET u == fmt_units(units)
    IN  [name |-> strftime_a(as_local(d.dt, tz_name)),
         tmin |-> <<N(PyRound(safe_get(d, <<"temp", "min">>, 0), 2)), W(u.temp)>>,
         tmax |-> <<N(PyRound(safe_get(d, <<"temp", "max">>, 0), 2)), W(u.temp)>>,
         pop |-> pop_pct(Get(d, "pop", None)),
         desc |-> title(safe_get(d, <<"weather", "0", "description">>, <<>>)),
         emoji |-> <<W(weather_emoji(safe_get(d, <<"weather", "0", "id">>, 800)))>>]

DayItemHtml(c) ==
    Concat(<<
        <<Tag("li"), Tag("b")>>, html_escape(c.name), <<Tag("/b"), W(": ")>>,
        html_escape(c.emoji), <<W(" ")>>, html_escape(c.desc), <<W(" - ")>>,
        html_escape(c.tmin), <<W(" / ")>>, html_escape(c.tmax), <<W(" (POP ")>>,
        html_escape(c.pop), <<W(")"), Tag("/li")>> >>)

DayItemText(c) ==
    Concat(<<
        c.name, <<W(": ")>>, c.desc, <<W(" - ")>>, c.tmin, <<W("/")>>, c.tmax,
        <<W(" (POP ")>>, c.pop, <<W(")")>> >>)

build_days_list(days, units, tz_name, limit) ==
    LET shown == Take(days, limit)
        cells == [i \in 1..Len(shown) |-> DayCells(shown[i], units, tz_name)]
        items_html == [i \in 1..Len(cells) |-> DayItemHtml(cells[i])]
        items_text == [i \in 1..Len(cells) |-> DayItemText(cells[i])]
        html_block == <<Tag("h3 style='margin:0.8rem 0 0.2rem 0'"), W("Next "), N(limit),
                        W(" days"), Tag("/h3"), Tag("ul style='margin:0.2rem 0 0 1rem'")>>
                      \o Concat(items_html) \o <<Tag("/ul")>>
        txt == <<W("Next days:"), W("\n"), W("- ")>> \o Join(<<W("\n"), W("- ")>>, items_text)
    IN  [html |-> html_block, txt |-> txt]

\* str.strip(): leading and trailing white space removed
IsSpace(t) == t = W(" ") \/ t = W("\n")

RECURSIVE LStrip(_)
LStrip(s) == IF s # <<>> /\ IsSpace(Head(s)) THEN LStrip(Tail(s)) ELSE s

RECURSIVE RStrip(_)
RStrip(s) ==
    IF s # <<>> /\ IsSpace(s[Len(s)]) THEN RStrip(SubSeq(s, 1, Len(s) - 1)) ELSE s

strip(s) == RStrip(LStrip(s))

\* s.replace("\n", " ")
ReplaceNewlines(s) == [i \in 1..Len(s) |-> IF s[i] = W("\n") THEN W(" ") ELSE s[i]]

\* One entry of build_alerts_section; the description is cut to 300 tokens
AlertCells(a, tz_name) ==
    LET desc == strip(Get(a, "description", <<>>))
    IN  [event |-> Get(a, "event", <<W("Alert")>>),
         start |-> strftime_aIMp(as_local(Get(a, "start", 0), tz_name)),
         end |-> strftime_aIMp(as_local(Get(a, "end", 0), tz_name)),
         short |-> ReplaceNewlines(Take(desc, 300))]

AlertItemHtml(c) ==
    Concat(<<
        <<Tag("li"), Tag("b")>>, html_escape(c.event), <<Tag("/b"), W(" (")>>,
        html_escape(c.start), <<W(" -> ")>>, html_escape(c.end), <<W("): ")>>,
        html_escape(c.short), <<W("..."), Tag("/li")>> >>)

AlertItemText(c) ==
    Concat(<<c.event, <<W(" (")>>, c.start, <<W("->")>>, c.end, <<W("): ")>>, c.short,
             <<W("...")>> >>)

\* the section for a list of alert records
AlertsSection(list, tz_name) ==
        LET cells == [i \in 1..Len(list) |-> AlertCells(list[i], tz_name)]
            items_html == [i \in 1..Len(cells) |-> AlertItemHtml(cells[i])]
            items_text == [i \in 1..Len(cells) |-> AlertItemText(cells[i])]
            html_block == <<Tag("h3 style='margin:1rem 0 0.2rem 0'"), W("Alerts"), Tag("/h3"),
                            Tag("ul style='margin:0.2rem 0 0 1rem'")>>
                          \o Concat(items_html) \o <<Tag("/ul")>>
            txt == <<W("ALERTS:"), W("\n"), W("- ")>>
                   \o Join(<<W("\n"), W("- ")>>, items_text)
        IN  [html |-> html_block, txt |-> txt]

\* a variant of build_alerts_section without the early return of line 360
build_alerts_section_always(alerts, tz_name) ==
    AlertsSection(IF alerts = None THEN <<>> ELSE alerts[1], tz_name)

\* alerts is None or Some(list)
build_alerts_section(alerts, tz_name) ==
    IF alerts = None \/ alerts[1] = <<>> THEN [html |-> <<>>, txt |-> <<>>]
    ELSE AlertsSection(alerts[1], tz_name)

\* str(x) of a value that is None or a number
StrOpt(x) == IF x = None THEN <<W("None")>> ELSE <<N(x[1])>>

\* aqi_json is None or Some(dict)
build_aqi_section(aqi_json) ==
    IF aqi_json = None \/ DOMAIN aqi_json[1] = {} THEN [html |-> <<>>, txt |-> <<>>]
    ELSE
        LET first == safe_get(aqi_json[1], <<"list", "0">>, <<>>)
            aqi_val == safe_get(first, <<"main", "aqi">>, None)
            lbl == aqi_label(aqi_val)
            comps == Get(first, "components", <<>>)
            fine == Get(comps, "pm2_5", None)
            coarse == Get(comps, "pm10", None)
            html_block == Concat(<<
                <<Tag("h3 style='margin:0.8rem 0 0.2rem 0'"), W("Air quality"), Tag("/h3"),
                  Tag("p style='margin:0.2rem 0'"), W("AQI: "), Tag("b")>>,
                html_escape(<<W(lbl)>>), <<Tag("/b"), W(" (")>>, html_escape(StrOpt(aqi_val)),
                <<W("). PM"), Dec(25, 1), W(": ")>>, html_escape(StrOpt(fine)),
                <<W(" ug/m3; PM"), N(10), W(": ")>>, html_escape(StrOpt(coarse)),
                <<W(" ug/m3."), Tag("/p")>> >>)
            txt == Concat(<<
                <<W("AQI "), W(lbl), W(" (")>>, StrOpt(aqi_val),
                <<W("). PM"), Dec(25, 1), W(" ")>>, StrOpt(fine),
                <<W(" ug/m3; PM"), N(10), W(" ")>>, StrOpt(coarse), <<W(" ug/m3.")>> >>)
        IN  [html |-> html_block, txt |-> txt]

-----------------------------------------------------------------------------
(* weather_alert.py: main, lines 436-501: the blocks, the subject and the   *)
(* two bodies, from the response d, the location g, the arguments a and the *)
(* answer air of the air-pollution service.                                 *)

ComposeSubject(d, g) ==
    LET tz_name == Get(d, "timezone", "local time")
        prefix == Get(environ, "EMAIL_SUBJECT_PREFIX", <<>>)
        today_str == strftime_abd(as_local(Get(Get(d, "current", <<>>), "dt", 0), tz_name))
    IN  Concat(<<prefix, g.name, <<W(" - Daily Outlook (")>>, today_str, <<W(")")>> >>)

\* air_pollution, lines 168-170: None when the status is not 200
air_pollution(answer) == IF answer.status # 200 THEN None ELSE Some(answer.json)

ComposeBlocks(today, d, a, air) ==
    LET tz_name == Get(d, "timezone", "local time")
    IN  [now |-> build_now_block(Get(d, "current", <<>>), a.units),
         today |-> build_today_block(today, a.units, tz_name),
         hours |-> build_hours_table(Get(d, "hourly", <<>>), a.units, tz_name, a.hours),
         days |-> build_days_list(Rest(Get(d, "daily", <<>>)), a.units, tz_name, a.days),
         alerts |-> build_alerts_section(Get(d, "alerts", None), tz_name),
         aqi |-> IF a.with_air THEN build_aqi_section(air_pollution(air))
                 ELSE [html |-> <<>>, txt |-> <<>>]]

ComposeHtml(b, g, a) ==
    LET header == Concat(<<
            <<Tag("div style='font:14px/1.4 system-ui; color:#111; max-width:780px'"),
              Tag("h2 style='margin:0.2rem 0 0.8rem 0'")>>,
            html_escape(g.name),
            <<W(" - Daily Weather Outlook"), Tag("/h2"),
              Tag("p style='margin:0 0 0.6rem 0; color:#666'"),
              W("Source: OpenWeather One Call "), Dec(30, 1), W(" . Units: ")>>,
            html_escape(<<W(a.units)>>), <<Tag("/p")>> >>)
    IN  Concat(<<
            header, <<W("\n")>>, b.now.html, <<W("\n")>>, b.today.html, <<W("\n")>>,
            b.hours.html, <<W("\n")>>, b.days.html,
            IF b.alerts.html # <<>> THEN <<W("\n")>> \o b.alerts.html ELSE <<>>,
            IF b.aqi.html # <<>> THEN <<W("\n")>> \o b.aqi.html ELSE <<>>,
            <<W("\n"), Tag("/div")>> >>)

ComposeText(b, g, a) ==
    Join(<<W("\n")>>, <<
        g.name \o <<W(" - Daily Weather Outlook")>>,
        <<W("Units: "), W(a.units)>>,
        <<>>,
        b.now.txt,
        b.today.txt,
        <<>>,
        b.hours.txt,
        <<>>,
        b.days.txt,
        <<>>,
        IF b.alerts.txt # <<>> THEN b.alerts.txt ELSE <<>>,
        IF b.aqi.txt # <<>> THEN b.aqi.txt ELSE <<>> >>)

\* an exception leaves main before anything is composed
Raise(what) == [error |-> what, subject |-> <<>>, html |-> <<>>, text |-> <<>>]

\* main, lines 437-501, once today's entry is in hand; requests.get in
\* air_pollution raises when the service does not answer
ComposeFrom(today, d, g, a, air) ==
    IF a.with_air /\ air.status = 0 THEN Raise("ConnectionError")
    ELSE LET b == ComposeBlocks(today, d, a, air)
         IN  [error |-> "", subject |-> ComposeSubject(d, g),
              html |-> ComposeHtml(b, g, a), text |-> ComposeText(b, g, a)]

\* a variant of main_compose that requires the current conditions: data["current"]
main_compose_current_required(d, g, a, air) ==
    IF "current" \notin DOMAIN d THEN Raise("KeyError: 'current'")
    ELSE IF "daily" \notin DOMAIN d THEN Raise("KeyError: 'daily'")
    ELSE IF d.daily = <<>> THEN Raise("IndexError: list index out of range")
    ELSE ComposeFrom(d.daily[1], d, g, a, air)

\* a variant of main_compose that defaults today's entry like the current conditions
main_compose_daily_optional(d, g, a, air) ==
    LET daily == Get(d, "daily", <<>>)
    IN  ComposeFrom(IF daily = <<>> THEN <<>> ELSE daily[1], d, g, a, air)

\* main, lines 436-501. data["daily"][0] raises KeyError or IndexError;
\* data.get("current", {}) does not
main_compose(d, g, a, air) ==
    IF "daily" \notin DOMAIN d THEN Raise("KeyError: 'daily'")
    ELSE IF d.daily = <<>> THEN Raise("IndexError: list index out of range")
    ELSE ComposeFrom(d.daily[1], d, g, a, air)

-----------------------------------------------------------------------------
(* The inputs the model draws from: settings, command lines, answers of the *)
(* geocoding, forecast and air-pollution services.                          *)

EnvFull ==
    [OWM_API_KEY |-> "key", SMTP_HOST |-> "smtp.example.org", SMTP_PORT |-> 587,
     SMTP_USER |-> "me@example.org", SMTP_PASS |-> "secret", EMAIL_TO |-> "you@example.org",
     EMAIL_SUBJECT_PREFIX |-> <<W("[Weather Alert] ")>>]

Without(d, key) == [x \in DOMAIN d \ {key} |-> d[x]]

Environs == {EnvFull, Without(EnvFull, "OWM_API_KEY"), Without(EnvFull, "SMTP_PASS")}

Zones == {"America/New_York", "Asia/Tokyo"}

\* weather_alert.py command lines: --units, --hours, --days, --with-air as
\* given or defaulted, and --threshold when the caller passes it
DirectArgvs == {
    [units |-> "imperial", hours |-> 12, days |-> 5, with_air |-> FALSE, threshold |-> None],
    [units |-> "metric", hours |-> 1, days |-> 5, with_air |-> TRUE, threshold |-> None],
    [units |-> "standard", hours |-> 12, days |-> 1, with_air |-> FALSE, threshold |-> None]}

\* cli.py weather: --units (default metric) and --threshold (default 0.2) are
\* always passed on; the threshold is counted in 64ths
CliUnits == {"metric", "imperial"}
CliThresholds == {13, 32}

GeoAnswers == {
    <<>>,
    <<[name |-> <<W("Moncks Corner")>>, state |-> <<W("South Carolina")>>,
       lat |-> 33, lon |-> -80]>>}

Sky == [list |-> <<[id |-> 500, description |-> <<W("light rain")>>]>>]

Currents == {
    [dt |-> 18000, temp |-> 143, feels_like |-> 141, humidity |-> 40, clouds |-> 75,
     uvi |-> 5, wind_speed |-> 17, wind_deg |-> 45, weather |-> Sky]}

DayA == [dt |-> 43200, temp |-> [min |-> 101, max |-> 163], rain |-> 25,
         sunrise |-> 44520, sunset |-> 79200, moon_phase |-> 20, weather |-> Sky]
DayB == [dt |-> 129600, temp |-> [min |-> 99, max |-> 150], pop |-> Some(-13)]

Dailies == {<<>>, <<DayA>>, <<DayA, DayB>>}

SlotDry == [dt |-> 21600, temp |-> 141, pop |-> Some(0), weather |-> Sky]
SlotWet == [dt |-> 25200, temp |-> 145, pop |-> Some(96), rain |-> ("1h" :> 12)]
Slots == {SlotDry, SlotWet}

Hourlies == UNION {[1..n -> Slots] : n \in 0..MaxHourly}

AlertA == [event |-> <<W("Flood Watch")>>, start |-> 28800, end |-> 72000,
           description |-> <<W("\n"), W("Rain up to "), N(3), W(" in"), W("\n"),
                             W("expected"), W(" ")>>]
AlertB == [event |-> <<W("Nor"), W("'"), W("easter Warning")>>, start |-> 90000]
AlertRecords == {AlertA, AlertB}

\* the value of the "alerts" key: null, or a list
AlertValues == {None} \cup {Some(l) : l \in UNION {[1..n -> AlertRecords] : n \in 0..MaxAlerts}}

\* a dict with the key k bound to each value of vs, or without the key
Optional(k, vs) == {<<>>} \cup {k :> v : v \in vs}

Forecasts ==
    {[timezone |-> z] @@ c @@ dl @@ h @@ al :
        z \in Zones, c \in Optional("current", Currents), dl \in Optional("daily", Dailies),
        h \in Optional("hourly", Hourlies), al \in Optional("alerts", AlertValues)}

\* what the air-pollution service answers; status 0: no answer, requests raises
AirAnswers == {
    [status |-> 200,
     json |-> [list |-> [list |-> <<[main |-> [aqi |-> Some(2)],
                                     components |-> [pm2_5 |-> Some(7), pm10 |-> Some(11)]]>>]]],
    [status |-> 503, json |-> <<>>],
    [status |-> 0, json |-> <<>>]}

\* what the SMTP session of send_email runs into
SmtpOutcomes == {"ok", "connect_failed", "login_failed"}

-----------------------------------------------------------------------------
(* Actions *)

Idle == <<>>

Init ==
    /\ pc = "shell"
    /\ via_cli = FALSE
    /\ argv = Idle
    /\ args = Idle
    /\ environ \in Environs
    /\ host_tz \in Zones
    /\ net = Idle
    /\ geo = Idle
    /\ data = Idle
    /\ subject = <<>>
    /\ html_body = <<>>
    /\ text_body = <<>>
    /\ send_calls = 0
    /\ outbox = <<>>
    /\ stdout = <<>>
    /\ exit_code = -1
    /\ error = ""
    /\ call = Idle
    /\ ret = <<>>
    /\ platform = "posix"
    /\ fs0 = Idle
    /\ fs = Idle

\* the process ends with an error
Die(code, what) ==
    /\ pc' = "failed"
    /\ exit_code' = code
    /\ error' = what

\* cli.py main, weather subcommand: runs weather_alert.py with --threshold
CliWeather ==
    /\ pc = "shell"
    /\ \E u \in CliUnits, t \in CliThresholds :
          argv' = [units |-> u, hours |-> 12, days |-> 5, with_air |-> FALSE,
                   threshold |-> Some(t)]
    /\ via_cli' = TRUE
    /\ pc' = "main"
    /\ UNCHANGED <<args, environ, host_tz, net, geo, data, subject, html_body, text_body,
                   send_calls, outbox, stdout, exit_code, error, call, ret, Files>>

\* python weather_alert.py ...
RunDirect ==
    /\ pc = "shell"
    /\ argv' \in DirectArgvs
    /\ pc' = "main"
    /\ UNCHANGED <<via_cli, args, environ, host_tz, net, geo, data, subject, html_body,
                   text_body, send_calls, outbox, stdout, exit_code, error, call, ret, Files>>

\* main, lines 408-430: the parser knows no --threshold; then the API key
ParseArgs ==
    /\ pc = "main"
    /\ IF argv.threshold # None
         THEN /\ Die(2, "unrecognized arguments: --threshold")
              /\ UNCHANGED args
       ELSE /\ args' = [units |-> argv.units, hours |-> argv.hours, days |-> argv.days,
                        with_air |-> argv.with_air]
            /\ IF "OWM_API_KEY" \notin DOMAIN environ
                 THEN Die(1, "Set OWM_API_KEY in env/secrets")
               ELSE pc' = "fetch" /\ UNCHANGED <<exit_code, error>>
    /\ UNCHANGED <<via_cli, argv, environ, host_tz, net, geo, data, subject, html_body,
                   text_body, send_calls, outbox, stdout, call, ret, Files>>

\* geocode_city, lines 140-148, on the JSON answer
geocode_city(answer) ==
    LET j == answer[1]
        pretty == IF "state" \in DOMAIN j THEN j.name \o <<W(", ")>> \o j.state ELSE j.name
    IN  [lat |-> j.lat, lon |-> j.lon, name |-> pretty]

\* main, lines 432-434: geocode_city and onecall
Fetch ==
    /\ pc = "fetch"
    /\ \/ /\ Die(1, "HTTPError")
          /\ UNCHANGED <<geo, data>>
       \/ \E answer \in GeoAnswers :
            IF answer = <<>>
              THEN Die(1, "Location not found") /\ UNCHANGED <<geo, data>>
            ELSE /\ geo' = geocode_city(answer)
                 /\ data' \in Forecasts
                 /\ pc' = "compose"
                 /\ UNCHANGED <<exit_code, error>>
    /\ UNCHANGED <<via_cli, argv, args, environ, host_tz, net, subject, html_body,
                   text_body, send_calls, outbox, stdout, call, ret, Files>>

\* main, lines 436-501: the blocks, the subject, the two bodies
Compose ==
    /\ pc = "compose"
    /\ \E air \in (IF args.with_air THEN AirAnswers ELSE {[status |-> 503, json |-> <<>>]}) :
          LET r == main_compose(data, geo, args, air)
          IN  IF r.error # ""
                THEN Die(1, r.error) /\ UNCHANGED <<subject, html_body, text_body>>
              ELSE /\ subject' = r.subject
                   /\ html_body' = r.html
                   /\ text_body' = r.text
                   /\ pc' = "send"
                   /\ UNCHANGED <<exit_code, error>>
    /\ UNCHANGED <<via_cli, argv, args, environ, host_tz, net, geo, data, send_calls,
                   outbox, stdout, call, ret, Files>>

\* a variant of SmtpFail: the exception of the SMTP session is swallowed
SmtpFail_swallowed(outcome) ==
    /\ pc' = "print"
    /\ UNCHANGED <<exit_code, error, outbox>>

\* send_email, lines 199-202: an exception of the SMTP session is not caught,
\* neither in send_email nor in main
SmtpFail(outcome) ==
    /\ Die(1, outcome)
    /\ UNCHANGED outbox

\* send_email, lines 175-202, called from main line 503
send_email ==
    LET host == Get(environ, "SMTP_HOST", "")
        port == Get(environ, "SMTP_PORT", 587)
        user == Get(environ, "SMTP_USER", "")
        pwd == Get(environ, "SMTP_PASS", "")
        from_addr == Get(environ, "EMAIL_FROM", user)
        to_addr == Get(environ, "EMAIL_TO", "")
        msg == [From |-> from_addr, To |-> to_addr, Subject |-> subject,
                text |-> text_body, html |-> html_body]
    IN  /\ pc = "send"
        /\ send_calls' = send_calls + 1
        /\ IF host = "" \/ port = 0 \/ user = "" \/ pwd = "" \/ from_addr = "" \/ to_addr = ""
             THEN /\ Die(1, "Missing SMTP/Email env vars")
                  /\ UNCHANGED <<net, outbox>>
           ELSE \E outcome \in SmtpOutcomes :
                  /\ net' = outcome
                  /\ IF outcome = "ok"
                       THEN /\ outbox' = Append(outbox, msg)
                            /\ pc' = "print"
                            /\ UNCHANGED <<exit_code, error>>
                     ELSE SmtpFail(outcome)
        /\ UNCHANGED <<via_cli, argv, args, environ, host_tz, geo, data, subject,
                       html_body, text_body, stdout, call, ret, Files>>

\* main, line 504
PrintSent ==
    /\ pc = "print"
    /\ stdout' = Append(stdout, "Email sent.")
    /\ pc' = "done"
    /\ exit_code' = 0
    /\ UNCHANGED <<via_cli, argv, args, environ, host_tz, net, geo, data, subject,
                   html_body, text_body, send_calls, outbox, error, call, ret, Files>>

Next ==
    \/ CliWeather
    \/ RunDirect
    \/ ParseArgs
    \/ Fetch
    \/ Compose
    \/ send_email
    \/ PrintSent

Spec == Init /\ [][Next]_vars

-----------------------------------------------------------------------------
(* The formatters on their own: each step applies one of them to an input   *)
(* and keeps the argument and the result.                                   *)

\* None, and probabilities from -0.5 to 2.0 in 64ths
PopInputs == {None} \cup {Some(k) : k \in -32..128}
\* bearings from 0 to 720 degrees in quarter degrees
BearingInputs == 0..2879
\* moon phases from 0 to 1 in 64ths
PhaseInputs == 0..64

FormatInit ==
    /\ pc = "format"
    /\ via_cli = FALSE
    /\ argv = Idle
    /\ args = Idle
    /\ environ = EnvFull
    /\ host_tz \in Zones
    /\ net = Idle
    /\ geo = Idle
    /\ data = Idle
    /\ subject = <<>>
    /\ html_body = <<>>
    /\ text_body = <<>>
    /\ send_calls = 0
    /\ outbox = <<>>
    /\ stdout = <<>>
    /\ exit_code = -1
    /\ error = ""
    /\ call = Idle
    /\ ret = <<>>
    /\ platform = "posix"
    /\ fs0 = Idle
    /\ fs = Idle

Pipeline == <<via_cli, argv, args, environ, host_tz, net, geo, data, subject,
            html_body, text_body, send_calls, outbox, stdout, exit_code, error, Files>>

\* the harness applies one function and stops
Return == pc' = "returned" /\ UNCHANGED Pipeline

CallPopPct ==
    /\ pc = "format"
    /\ \E x \in PopInputs :
          /\ call' = [fn |-> "pop_pct", arg |-> x]
          /\ ret' = pop_pct(x)
    /\ Return

CallDegToCompass ==
    /\ pc = "format"
    /\ \E deg \in BearingInputs :
          /\ call' = [fn |-> "deg_to_compass", arg |-> Some(deg)]
          /\ ret' = <<W(deg_to_compass(deg))>>
    /\ Return

CallMoonLabel ==
    /\ pc = "format"
    /\ \E phase \in PhaseInputs :
          /\ call' = [fn |-> "moon_label", arg |-> Some(phase)]
          /\ ret' = <<W(moon_label(phase))>>
    /\ Return

FormatNext ==
    \/ CallPopPct
    \/ CallDegToCompass
    \/ CallMoonLabel

FormatSpec == FormatInit /\ [][FormatNext]_vars

-----------------------------------------------------------------------------
(* The file tools: names and paths                                          *)

\* str.lower on the ASCII letters
UpperCase == <<"A", "B", "C", "D", "E", "F", "G", "H", "I", "J", "K", "L",
               "M", "N", "O", "P", "Q", "R", "S", "T", "U", "V", "W", "X",
               "Y", "Z">>
LowerCase == <<"a", "b", "c", "d", "e", "f", "g", "h", "i", "j", "k", "l",
               "m", "n", "o", "p", "q", "r", "s", "t", "u", "v", "w", "x",
               "y", "z">>
LowerChar(c) ==
    IF \E i \in 1..26 : UpperCase[i] = c
      THEN LowerCase[CHOOSE i \in 1..26 : UpperCase[i] = c]
    ELSE c
lower(s) == [i \in 1..Len(s) |-> LowerChar(s[i])]

\* the characters SAFE leaves alone: [a-z0-9\-_.]
SafeChars == {LowerCase[i] : i \in 1..26}
             \cup {"0", "1", "2", "3", "4", "5", "6", "7", "8", "9", "-", "_", "."}
\* the characters file names are made of
Alphabet == SafeChars \cup {UpperCase[i] : i \in 1..26} \cup {" ", "!", "(", ")"}
\* what SAFE matches
Unsafe == Alphabet \ SafeChars
Whitespace == {" "}

RECURSIVE lstrip(_, _)
lstrip(s, chars) == IF s # <<>> /\ Head(s) \in chars THEN lstrip(Tail(s), chars) ELSE s
RECURSIVE rstrip(_, _)
rstrip(s, chars) ==
    IF s # <<>> /\ s[Len(s)] \in chars THEN rstrip(SubSeq(s, 1, Len(s) - 1), chars) ELSE s
\* str.strip(chars)
StripOf(s, chars) == rstrip(lstrip(s, chars), chars)

\* re.sub of one or more characters of class by "-"
RECURSIVE SubRuns(_, _)
SubRuns(s, class) ==
    IF s = <<>> THEN <<>>
    ELSE IF Head(s) \in class THEN <<"-">> \o SubRuns(lstrip(Tail(s), class), class)
    ELSE <<Head(s)>> \o SubRuns(Tail(s), class)

\* slugify, media_renamer.py lines 10-16; -{2,} by "-" leaves a single "-" as
\* it is, which is what SubRuns does to it
slugify(name) ==
    LET stripped == StripOf(lower(name), Whitespace)
        dashed == [i \in 1..Len(stripped) |-> IF stripped[i] = " " THEN "-" ELSE stripped[i]]
        under == SubRuns(dashed, {"_"})
        safe == SubRuns(under, Unsafe)
    IN  StripOf(SubRuns(safe, {"-"}), {"-"})

\* pathlib: the suffix starts at the last dot, unless that dot opens or ends the name
LastDot(name) ==
    IF \E i \in 1..Len(name) : name[i] = "."
      THEN CHOOSE i \in 1..Len(name) :
               name[i] = "." /\ \A j \in (i + 1)..Len(name) : name[j] # "."
    ELSE 0
suffix(name) ==
    LET i == LastDot(name)
    IN  IF 1 < i /\ i < Len(name) THEN SubSeq(name, i, Len(name)) ELSE <<>>
stem(name) == SubSeq(name, 1, Len(name) - Len(suffix(name)))

\* str(i) for i >= 0
DigitChars == <<"0", "1", "2", "3", "4", "5", "6", "7", "8", "9">>
RECURSIVE Str(_)
Str(i) == IF i < 10 THEN <<DigitChars[i + 1]>> ELSE Str(i \div 10) \o <<DigitChars[(i % 10) + 1]>>

\* paths: the parent and the last name
Parent(path) == SubSeq(path, 1, Len(path) - 1)
Name(path) == path[Len(path)]
with_name(path, name) == Append(Parent(path), name)

-----------------------------------------------------------------------------
(* The file tools: the file system                                          *)

exists(fsys, path) == path \in DOMAIN fsys
is_dir(fsys, path) == exists(fsys, path) /\ fsys[path] = 0
is_file(fsys, path) == exists(fsys, path) /\ fsys[path] > 0

\* the entries of the folder itself, and those of them that are files
Entries(fsys) == {p \in DOMAIN fsys : Len(p) = 1}
FilesOf(fsys) == {p \in Entries(fsys) : is_file(fsys, p)}
\* what is below a directory
Below(fsys, dir) == {p \in DOMAIN fsys : Len(p) > Len(dir) /\ SubSeq(p, 1, Len(dir)) = dir}

\* the orders in which iterdir may yield the members of S
Orders(S) ==
    {o \in [1..Cardinality(S) -> S] : \A i, j \in 1..Cardinality(S) : o[i] = o[j] => i = j}

\* os.rename of a file, and what shutil.move does when os.rename refuses: an
\* existing file at dst is replaced
Rename(fsys, src, dst) ==
    [q \in (DOMAIN fsys \ {src}) \cup {dst} |-> IF q = dst THEN fsys[src] ELSE fsys[q]]

\* Path.mkdir(parents=True, exist_ok=True)
Prefixes(dir) == {SubSeq(dir, 1, k) : k \in 1..Len(dir)}
MkdirError(fsys, dir) ==
    IF is_file(fsys, dir) THEN "FileExistsError"
    ELSE IF \E q \in Prefixes(dir) : is_file(fsys, q) THEN "NotADirectoryError"
    ELSE ""
Mkdir(fsys, dir) ==
    [q \in DOMAIN fsys \cup Prefixes(dir) |-> IF q \in DOMAIN fsys THEN fsys[q] ELSE 0]

-----------------------------------------------------------------------------
(* file_sorter.py                                                           *)

\* the folders of COMMON_MAP
Documents == <<"D", "o", "c", "u", "m", "e", "n", "t", "s">>
Pictures == <<"P", "i", "c", "t", "u", "r", "e", "s">>
Videos == <<"V", "i", "d", "e", "o", "s">>
Audio == <<"A", "u", "d", "i", "o">>
Archives == <<"A", "r", "c", "h", "i", "v", "e", "s">>

\* COMMON_MAP, lines 6-26: the extension and the folder, name by name
COMMON_MAP == <<
    << <<".", "p", "d", "f">>, <<Documents, <<"p", "d", "f">>>> >>,
    << <<".", "d", "o", "c">>, <<Documents, <<"w", "o", "r", "d">>>> >>,
    << <<".", "d", "o", "c", "x">>, <<Documents, <<"w", "o", "r", "d">>>> >>,
    << <<".", "x", "l", "s">>, <<Documents, <<"e", "x", "c", "e", "l">>>> >>,
    << <<".", "x", "l", "s", "x">>, <<Documents, <<"e", "x", "c", "e", "l">>>> >>,
    << <<".", "c", "s", "v">>, <<Documents, <<"c", "s", "v">>>> >>,
    << <<".", "j", "p", "g">>, <<Pictures, <<"j", "p", "g">>>> >>,
    << <<".", "j", "p", "e", "g">>, <<Pictures, <<"j", "p", "g">>>> >>,
    << <<".", "p", "n", "g">>, <<Pictures, <<"p", "n", "g">>>> >>,
    << <<".", "g", "i", "f">>, <<Pictures, <<"g", "i", "f">>>> >>,
    << <<".", "m", "p", "4">>, <<Videos, <<"m", "p", "4">>>> >>,
    << <<".", "m", "o", "v">>, <<Videos, <<"m", "o", "v">>>> >>,
    << <<".", "m", "p", "3">>, <<Audio, <<"m", "p", "3">>>> >>,
    << <<".", "w", "a", "v">>, <<Audio, <<"w", "a", "v">>>> >>,
    << <<".", "z", "i", "p">>, <<Archives, <<"z", "i", "p">>>> >>,
    << <<".", "7", "z">>, <<Archives, <<"7", "z">>>> >>,
    << <<".", "r", "a", "r">>, <<Archives, <<"r", "a", "r">>>> >>,
    << <<".", "t", "x", "t">>, <<Documents, <<"t", "x", "t">>>> >>,
    << <<".", "m", "d">>, <<Documents, <<"m", "d">>>> >> >>

\* plan_moves, line 34: mapping.get(ext, f"Other{ext or '_noext'}")
TargetFolder(ext) ==
    IF \E i \in 1..Len(COMMON_MAP) : COMMON_MAP[i][1] = ext
      THEN COMMON_MAP[CHOOSE i \in 1..Len(COMMON_MAP) : COMMON_MAP[i][1] = ext][2]
    ELSE <<<<"O", "t", "h", "e", "r">> \o (IF ext = <<>> THEN <<"_", "n", "o", "e", "x", "t">> ELSE ext)>>

\* plan_moves, lines 28-36, for the files of the folder in the order iterdir
\* yields them
plan_moves(order) ==
    [i \in 1..Len(order) |->
        LET name == Name(order[i])
        IN  [src |-> order[i], dst |-> Append(TargetFolder(lower(suffix(name))), name)]]

\* main, lines 55-61: mkdir raises outside the try; shutil.move raises inside
\* it when dst is a directory that already holds the name
RECURSIVE SortMoves(_, _, _)
SortMoves(fsys, moves, out) ==
    IF moves = <<>> THEN [fs |-> fsys, out |-> out, error |-> ""]
    ELSE LET m == Head(moves)
             failed == MkdirError(fsys, Parent(m.dst))
             made == Mkdir(fsys, Parent(m.dst))
         IN  IF failed # "" THEN [fs |-> fsys, out |-> out, error |-> failed]
             ELSE IF is_dir(made, m.dst)
               THEN IF exists(made, Append(m.dst, Name(m.src)))
                      THEN SortMoves(made, Tail(moves),
                                     Append(out, [what |-> "Failed to move", src |-> m.src,
                                                  dst |-> m.dst]))
                    ELSE SortMoves(Rename(made, m.src, Append(m.dst, Name(m.src))),
                                   Tail(moves),
                                   Append(out, [what |-> "Moved", src |-> m.src, dst |-> m.dst]))
             ELSE SortMoves(Rename(made, m.src, m.dst), Tail(moves),
                            Append(out, [what |-> "Moved", src |-> m.src, dst |-> m.dst]))

\* main, lines 63-74: the empty directories directly below the folder
EmptyDirs(fsys) == {p \in Entries(fsys) : is_dir(fsys, p) /\ Below(fsys, p) = {}}
Rmdirs(fsys, dirs) == [q \in DOMAIN fsys \ dirs |-> fsys[q]]

\* a variant of file_sorter_run that moves the files in a dry run as well
file_sorter_run_dry_ignored(fsys, dry_run, order) == SortMoves(fsys, plan_moves(order), <<>>)

\* main, lines 49-61: the plan, then the listing of a dry run or the moves
file_sorter_run(fsys, dry_run, order) ==
    LET moves == plan_moves(order)
    IN  IF dry_run
          THEN [fs |-> fsys, error |-> "",
                out |-> [i \in 1..Len(moves) |->
                            [what |-> "[DRY]", src |-> moves[i].src, dst |-> moves[i].dst]]]
        ELSE SortMoves(fsys, moves, <<>>)

-----------------------------------------------------------------------------
(* media_renamer.py                                                         *)

\* unique_path, lines 22-28
RECURSIVE UniqueFrom(_, _, _)
UniqueFrom(fsys, path, i) ==
    LET candidate == with_name(path, stem(Name(path)) \o <<"-">> \o Str(i) \o suffix(Name(path)))
    IN  IF ~exists(fsys, candidate) THEN candidate ELSE UniqueFrom(fsys, path, i + 1)

\* unique_path, lines 19-28
unique_path(fsys, path) == IF ~exists(fsys, path) THEN path ELSE UniqueFrom(fsys, path, 1)

\* datetime.today().strftime("%Y%m%d-")
Today == <<"2", "0", "2", "4", "0", "1", "3", "1", "-">>

\* main, lines 46-52: Path.with_name raises ValueError on an empty name
RECURSIVE PlanChanges(_, _, _, _)
PlanChanges(fsys, order, prefix, changes) ==
    IF order = <<>> THEN [changes |-> changes, error |-> ""]
    ELSE LET p == Head(order)
             new_name == slugify(stem(Name(p))) \o lower(suffix(Name(p)))
         IN  IF prefix \o new_name = <<>> THEN [changes |-> changes, error |-> "ValueError"]
             ELSE IF prefix \o new_name # Name(p)
               THEN PlanChanges(fsys, Tail(order), prefix,
                                Append(changes,
                                       [src |-> p,
                                        dst |-> unique_path(fsys, with_name(p, prefix \o new_name))]))
             ELSE PlanChanges(fsys, Tail(order), prefix, changes)

\* main, lines 54-59, not a dry run: Path.rename replaces an existing file on
\* POSIX and raises FileExistsError on Windows
RECURSIVE RenameAll(_, _, _, _)
RenameAll(fsys, changes, out, os_name) ==
    IF changes = <<>> THEN [fs |-> fsys, out |-> out, error |-> ""]
    ELSE LET c == Head(changes)
         IN  IF exists(fsys, c.dst) /\ os_name = "nt"
               THEN [fs |-> fsys, out |-> out, error |-> "FileExistsError"]
             ELSE RenameAll(Rename(fsys, c.src, c.dst), Tail(changes),
                            Append(out, [what |-> "Renamed", src |-> c.src, dst |-> c.dst]),
                            os_name)

\* main, lines 44-59
media_renamer_run(fsys, date_prefix, dry_run, order, os_name) ==
    LET plan == PlanChanges(fsys, order, IF date_prefix THEN Today ELSE <<>>, <<>>)
    IN  IF plan.error # "" THEN [fs |-> fsys, out |-> <<>>, error |-> plan.error]
        ELSE IF dry_run
          THEN [fs |-> fsys, error |-> "",
                out |-> [i \in 1..Len(plan.changes) |->
                            [what |-> "[DRY]", src |-> plan.changes[i].src,
                             dst |-> plan.changes[i].dst]]]
        ELSE RenameAll(fsys, plan.changes, <<>>, os_name)

-----------------------------------------------------------------------------
(* The folders the file tools are started on                                *)

\* the largest number of files directly in the folder
MaxFiles == 3

\* the names files of the folder may have
NamePool == <<
    <<"A", " ", "B", ".", "t", "x", "t">>,
    <<"a", "_", "b", ".", "t", "x", "t">>,
    <<"a", "-", "b", ".", "t", "x", "t">>,
    <<"a", "-", "b", "-", "1", ".", "t", "x", "t">>,
    <<"N", "o", "t", "e", "s", ".", "P", "D", "F">>,
    <<"d", "a", "t", "a", ".", "x", "y", "z">>,
    <<"R", "E", "A", "D", "M", "E">>,
    <<"_">>,
    <<"D", "o", "c", "u", "m", "e", "n", "t", "s">> >>

\* what else the folder holds: nothing, an empty directory, or Documents/txt
\* with a file a-b.txt in it
OldDir == <<"o", "l", "d">>
Subfolders == {
    <<>>,
    << <<OldDir>> >>,
    << <<Documents>>, <<Documents, <<"t", "x", "t">>>>,
       <<Documents, <<"t", "x", "t">>, <<"a", "-", "b", ".", "t", "x", "t">>>> >>}

\* the file system with the files S (indices of NamePool, which serve as the
\* identities of the contents) and the subfolder paths sub, the last of which
\* is a file when there are three
Folder(S, sub) ==
    [p \in {<<>>} \cup {<<NamePool[i]>> : i \in S} \cup {sub[k] : k \in 1..Len(sub)} |->
        IF p = <<>> THEN 0
        ELSE IF \E k \in 1..Len(sub) : sub[k] = p
          THEN IF Len(p) = 3 THEN Len(NamePool) + 1 ELSE 0
        ELSE CHOOSE i \in S : <<NamePool[i]>> = p]

\* a name is a file or a directory, not both
Folders ==
    {Folder(S, sub) : S \in {T \in SUBSET (1..Len(NamePool)) : Cardinality(T) <= MaxFiles},
                      sub \in {u \in Subfolders :
                                  \A k \in 1..Len(u) : \A i \in 1..Len(NamePool) :
                                      u[k] # <<NamePool[i]>>}}

\* --path: the folder, or a path that does not exist
Missing == <<<<"n", "o", "w", "h", "e", "r", "e">>>>
PathArgs == {<<>>, Missing}
Platforms == {"posix", "nt"}

FileInit ==
    /\ pc = "shell"
    /\ via_cli = FALSE
    /\ argv = Idle
    /\ args = Idle
    /\ environ = EnvFull
    /\ host_tz = "UTC"
    /\ net = Idle
    /\ geo = Idle
    /\ data = Idle
    /\ subject = <<>>
    /\ html_body = <<>>
    /\ text_body = <<>>
    /\ send_calls = 0
    /\ outbox = <<>>
    /\ stdout = <<>>
    /\ exit_code = -1
    /\ error = ""
    /\ call = Idle
    /\ ret = <<>>
    /\ platform \in Platforms
    /\ fs0 \in Folders
    /\ fs = fs0

\* what the file tools leave alone
Weather == <<via_cli, args, environ, host_tz, net, geo, data, subject, html_body,
             text_body, send_calls, outbox, call, ret, platform, fs0>>

\* the tool returns from main
Finish(fsys, out) ==
    /\ fs' = fsys
    /\ stdout' = out
    /\ pc' = "done"
    /\ exit_code' = 0
    /\ UNCHANGED error

\* the tool ends with SystemExit or an exception nothing catches
Crash(fsys, out, what) ==
    /\ fs' = fsys
    /\ stdout' = out
    /\ Die(1, what)

\* file_sorter.py main, lines 38-74, started directly or by cli.py sort
file_sorter_main ==
    /\ pc = "shell"
    /\ \E path \in PathArgs, dry_run \in BOOLEAN, no_empty_dirs \in BOOLEAN :
          /\ argv' = [tool |-> "file_sorter.py", path |-> path, dry_run |-> dry_run,
                      no_empty_dirs |-> no_empty_dirs]
          /\ IF ~is_dir(fs, path) THEN Crash(fs, stdout, "is not a valid directory")
             ELSE \E order \in Orders(FilesOf(fs)) :
                    LET r == file_sorter_run(fs, dry_run, order)
                    IN  IF r.error # "" THEN Crash(r.fs, r.out, r.error)
                        ELSE IF dry_run \/ no_empty_dirs THEN Finish(r.fs, r.out)
                        ELSE \E gone \in Orders(EmptyDirs(r.fs)) :
                               Finish(Rmdirs(r.fs, EmptyDirs(r.fs)),
                                      r.out \o [i \in 1..Len(gone) |->
                                                   [what |-> "Removed empty dir",
                                                    src |-> gone[i], dst |-> gone[i]]])
    /\ UNCHANGED Weather

\* media_renamer.py main, lines 31-59, started directly or by cli.py rename
media_renamer_main ==
    /\ pc = "shell"
    /\ \E path \in PathArgs, date_prefix \in BOOLEAN, dry_run \in BOOLEAN :
          /\ argv' = [tool |-> "media_renamer.py", path |-> path, dry_run |-> dry_run,
                      date_prefix |-> date_prefix]
          /\ IF ~is_dir(fs, path) THEN Crash(fs, stdout, "is not a valid directory")
             ELSE \E order \in Orders(FilesOf(fs)) :
                    LET r == media_renamer_run(fs, date_prefix, dry_run, order, platform)
                    IN  IF r.error # "" THEN Crash(r.fs, r.out, r.error)
                        ELSE Finish(r.fs, r.out)
    /\ UNCHANGED Weather

FileNext ==
    \/ file_sorter_main
    \/ media_renamer_main

FileSpec == FileInit /\ [][FileNext]_vars

-----------------------------------------------------------------------------
(* Reading a rendered body *)

\* the text a mail client shows for an HTML body: tags dropped, character
\* references decoded
Unescape(t) ==
    IF t.k # "entity" THEN t
    ELSE IF t.s = "&amp;" THEN W("&")
    ELSE IF t.s = "&lt;" THEN W("<")
    ELSE IF t.s = "&gt;" THEN W(">")
    ELSE IF t.s = "&quot;" THEN W("\"")
    ELSE W("'")

IsContent(t) == t.k # "tag"

TextContent(body) ==
    LET kept == SelectSeq(body, IsContent)
    IN  [i \in 1..Len(kept) |-> Unescape(kept[i])]

\* sub occurs in seq
Contains(seq, sub) ==
    \E i \in 1..(Len(seq) - Len(sub) + 1) : SubSeq(seq, i, i + Len(sub) - 1) = sub

\* the response has arrived
Fetched == data # Idle
\* the response has a first daily entry
DailyOk == "daily" \in DOMAIN data /\ data.daily # <<>>
\* the run is over
Ended == pc \in {"done", "failed"}

-----------------------------------------------------------------------------
(* C1 *)

\* the policy of the alert gate: threshold in 64ths (0.2 is met from 13/64
\* on), horizon in hourly slots
GateThreshold == IF argv.threshold = None THEN 13 ELSE argv.threshold[1]
GateHorizon == args.hours

SlotQualifies(h) ==
    \/ OrElse(Get(h, "pop", None), 0) >= GateThreshold
    \/ safe_get(h, <<"rain", "1h">>, 0) # 0
    \/ safe_get(h, <<"snow", "1h">>, 0) # 0

\* no hourly slot within the horizon qualifies
Quiet ==
    LET window == Take(Get(data, "hourly", <<>>), GateHorizon)
    IN  \A i \in 1..Len(window) : ~SlotQualifies(window[i])

\* C1: when the response is complete and no hourly slot within the horizon
\* reaches the threshold or carries accumulation (there is no force option),
\* send_email is never called and the run does not fail.
C1_GateNoOp ==
    (Fetched /\ "current" \in DOMAIN data /\ DailyOk /\ Quiet)
        => (send_calls = 0 /\ pc # "failed")

-----------------------------------------------------------------------------
(* C2 *)

\* C2: send_email is called at most once and only with the subject and both
\* bodies composed; what the server accepted is that payload; a failed send
\* ends the run as a failure, nothing is printed after it, and "Email sent."
\* is printed only after an accepted message.
C2_SingleDelivery ==
    /\ send_calls <= 1
    /\ Len(outbox) <= send_calls
    /\ send_calls = 1 => (subject # <<>> /\ html_body # <<>> /\ text_body # <<>>)
    /\ outbox # <<>> =>
          (outbox[1].Subject = subject /\ outbox[1].text = text_body
           /\ outbox[1].html = html_body)
    /\ (send_calls = 1 /\ outbox = <<>>) =>
          (pc = "failed" /\ exit_code = 1 /\ stdout = <<>>)
    /\ stdout # <<>> => (stdout = <<"Email sent.">> /\ Len(outbox) = 1)

\* a run whose SMTP login was refused
C2_Witness == pc = "failed" /\ send_calls = 1 /\ error = "login_failed"

-----------------------------------------------------------------------------
(* C3 *)

\* the current-conditions line build_now_block makes of an empty dict
DefaultNowLine ==
    LET u == fmt_units(args.units)
    IN  <<W("sun"), W(" "), W(". Temp "), N(0), W(u.temp), W(", feels "), N(0), W(u.temp),
          W(". Wind "), N(0), W(" "), W(u.speed), W(" "), W("N"), W(". Humidity "), N(0),
          W("%"), W(". UV "), N(0), W(". Clouds "), N(0), W("%"), W(".")>>

\* C3 as stated: a response without `current` ends the run in an input error
\* and send_email is never called.
C3_MissingCurrentFails ==
    (Fetched /\ "current" \notin DOMAIN data)
        => (send_calls = 0 /\ (pc # "compose" => pc = "failed"))

\* C3 as amended: a response without `current` but with a first daily entry is
\* no input error: both bodies carry the current-conditions line made of the
\* defaults (0 degrees, wind 0 N, humidity 0%, UV 0, clouds 0%), and, unless
\* the air-pollution service fails to answer, the run ends only after
\* send_email was called once.
C3_MissingCurrentDefaults ==
    (Fetched /\ "current" \notin DOMAIN data /\ DailyOk) =>
        /\ (pc # "compose" /\ error # "ConnectionError") =>
              /\ Contains(text_body, DefaultNowLine)
              /\ Contains(TextContent(html_body), DefaultNowLine)
        /\ (Ended /\ error # "ConnectionError") => send_calls = 1
        /\ pc = "failed" =>
              error \in SmtpOutcomes \cup {"Missing SMTP/Email env vars", "ConnectionError"}

\* a run without `current` that sent its message
C3_Witness == pc = "done" /\ "current" \notin DOMAIN data /\ Len(outbox) = 1

-----------------------------------------------------------------------------
(* C4 *)

\* C4: a response whose daily sequence is missing or empty fails the run
\* before send_email: nothing is composed, nothing is sent.
C4_MissingDailyFails ==
    (Fetched /\ ~DailyOk) =>
        /\ send_calls = 0
        /\ outbox = <<>>
        /\ subject = <<>> /\ html_body = <<>> /\ text_body = <<>>
        /\ pc \in {"compose", "failed"}
        /\ pc = "failed" => (exit_code = 1 /\ error \in {"KeyError: 'daily'",
                                 "IndexError: list index out of range"})

\* a failed run on a response with current and hourly data and an empty daily list
C4_Witness ==
    /\ pc = "failed"
    /\ "daily" \in DOMAIN data /\ data.daily = <<>>
    /\ "current" \in DOMAIN data
    /\ "hourly" \in DOMAIN data /\ data.hourly # <<>>

-----------------------------------------------------------------------------
(* C5 *)

\* n is an integer nearest to num/den
Nearest(n, num, den) == 2 * (num - den * n) <= den /\ 2 * (den * n - num) <= den
\* num/den lies exactly half way between two integers
HalfWay(num, den) == (2 * num) % den = 0 /\ num % den # 0

IsNum(t) == t.k = "num"
NumTokens(seq) == SelectSeq(seq, IsNum)
IsBlank(t) == t = W(" ")
NotBlank(t) == t # W(" ")

\* C5 as stated: a probability in [0,1] renders as the integer nearest to
\* p*100 followed by "%" (leading blanks aside), and None renders as the dash,
\* with no number in it: never "0%".
C5_PercentOrDash ==
    (pc = "returned" /\ call.fn = "pop_pct") =>
        IF call.arg = None THEN ret = <<W("-")>> /\ NumTokens(ret) = <<>>
        ELSE (0 <= call.arg[1] /\ call.arg[1] <= 64) =>
                LET shown == SelectSeq(ret, NotBlank)
                IN  /\ Len(shown) = 2
                    /\ shown[1].k = "num" /\ shown[1].d = 0
                    /\ Nearest(shown[1].v, 100 * call.arg[1], 64)
                    /\ shown[2] = W("%")

\* C5 as amended: a probability in [0,1] renders as round(p*100), an exact
\* half going to the even neighbour, right-aligned in three columns and
\* followed by "%"; None renders as zero does: "  0%".
C5_PercentRendering ==
    (pc = "returned" /\ call.fn = "pop_pct") =>
        IF call.arg = None THEN ret = <<W(" "), W(" "), N(0), W("%")>>
        ELSE (0 <= call.arg[1] /\ call.arg[1] <= 64) =>
                LET len == Len(ret)
                    n == ret[len - 1].v
                IN  /\ len >= 2
                    /\ ret[len] = W("%")
                    /\ ret[len - 1] = N(n)
                    /\ \A i \in 1..(len - 2) : ret[i] = W(" ")
                    /\ (len - 2) + NumWidth(n) = 3
                    /\ Nearest(n, 100 * call.arg[1], 64)
                    /\ HalfWay(100 * call.arg[1], 64) => n % 2 = 0

\* pop_pct(None) has returned
C5_Witness ==
    pc = "returned" /\ call.fn = "pop_pct" /\ call.arg = None /\ NumTokens(ret) = <<N(0)>>

-----------------------------------------------------------------------------
(* C6 *)

\* C6: for a bearing d in [0,360), at d and at d+360 alike, deg_to_compass is
\* the 16-point name at index i mod 16, i the integer with
\* i*22.5 - 11.25 <= d < i*22.5 + 11.25: round(d/22.5) with an exact half
\* going up, so that 11.25 is NNE.
C6_Compass ==
    (pc = "returned" /\ call.fn = "deg_to_compass") =>
        LET d == call.arg[1] % 1440
        IN  \E i \in 0..16 :
                /\ 90 * i - 45 <= d
                /\ d < 90 * i + 45
                /\ ret = <<W(pts[(i % 16) + 1])>>

\* deg_to_compass(11.25 + 360) has returned NNE
C6_Witness ==
    pc = "returned" /\ call.fn = "deg_to_compass" /\ call.arg = Some(1485) /\ ret = <<W("NNE")>>

-----------------------------------------------------------------------------
(* C7 *)

\* both bodies exist
Composed == html_body # <<>> /\ text_body # <<>>

\* the numbers only the HTML body prints: the API version in the source line
\* and N in the headings "Next N hours" and "Next N days"
HtmlOnlyLabels == {W("Source: OpenWeather One Call "), W("Next ")}

\* seq with the number that directly follows such a label blanked
DropAfterLabels(seq) ==
    [i \in 1..Len(seq) |->
        IF i > 1 /\ seq[i].k = "num" /\ seq[i - 1] \in HtmlOnlyLabels THEN W("")
        ELSE seq[i]]

\* C7 as stated: the numeric tokens of the plain-text body are those of the
\* HTML body, in the same order.
C7_SameNumericTokens ==
    Composed => NumTokens(text_body) = NumTokens(TextContent(html_body))

\* C7 as amended: the numeric tokens of the plain-text body are those of the
\* HTML body's text once the three numbers that only the HTML body prints are
\* left out: 3.0 in "One Call 3.0" and N in "Next N hours" and "Next N days".
C7_SameDataNumbers ==
    Composed =>
        /\ NumTokens(text_body) = NumTokens(DropAfterLabels(TextContent(html_body)))
        /\ Len(NumTokens(TextContent(html_body))) = Len(NumTokens(text_body)) + 3

\* bodies with two hourly rows, a further day, an alert and the air quality
C7_Witness ==
    /\ pc = "send"
    /\ "hourly" \in DOMAIN data /\ Len(data.hourly) = 2 /\ args.hours = 12
    /\ Len(data.daily) = 2
    /\ "alerts" \in DOMAIN data /\ data.alerts = Some(<<AlertA>>)
    /\ "current" \in DOMAIN data

-----------------------------------------------------------------------------
(* C8 *)

PercentsWithin(body) ==
    \A i \in 2..Len(body) :
        (body[i] = W("%") /\ body[i - 1].k = "num") =>
            (0 <= body[i - 1].v /\ body[i - 1].v <= 100)

\* C8: every percentage of the notification lies between 0% and 100%,
\* whatever probabilities the provider sent.
C8_PercentClamped ==
    Composed => (PercentsWithin(text_body) /\ PercentsWithin(TextContent(html_body)))

-----------------------------------------------------------------------------
(* C9 *)

\* strftime("%-I:%M %p") of the epoch value ts on the clock of the zone
ClockOf(ts, zone) == strftime_IMp(ts + UtcOffset(zone))

\* C9: the sunrise both bodies print is today's sunrise epoch value on the
\* clock of the response's own timezone.
C9_PayloadTimezone ==
    Composed =>
        LET shown == <<W(". Sunrise ")>>
                     \o ClockOf(Get(data.daily[1], "sunrise", 0), data.timezone)
        IN  Contains(text_body, shown) /\ Contains(TextContent(html_body), shown)

-----------------------------------------------------------------------------
(* C10 *)

\* the alert records of the response, <<>> when the key is absent or null
AlertList == LET a == Get(data, "alerts", None) IN IF a = None THEN <<>> ELSE a[1]

Count(seq, t) == Cardinality({i \in 1..Len(seq) : seq[i] = t})
First(seq, t) == CHOOSE i \in 1..Len(seq) : seq[i] = t /\ \A j \in 1..(i - 1) : seq[j] # t
\* what follows the first t of seq
After(seq, t) == SubSeq(seq, First(seq, t) + 1, Len(seq))
\* what precedes the first t of seq
Before(seq, t) == SubSeq(seq, 1, First(seq, t) - 1)

\* the stretches of seq between each open and the close that follows it
RECURSIVE Segments(_, _, _)
Segments(seq, open, close) ==
    IF Count(seq, open) = 0 \/ Count(After(seq, open), close) = 0 THEN <<>>
    ELSE LET rest == After(seq, open)
         IN  <<Before(rest, close)>> \o Segments(After(rest, close), open, close)

IsListOpen(t) == t.k = "tag" /\ t.s = "ul style='margin:0.2rem 0 0 1rem'"

EventNames == [i \in 1..Len(AlertList) |-> Get(AlertList[i], "event", <<W("Alert")>>)]

\* C10: without alert records (key absent, null or empty list) neither body
\* has an alerts heading or an alerts list; with records both bodies have the
\* heading once and under it one entry per record, in the provider's order.
C10_AlertsSection ==
    Composed =>
        IF AlertList = <<>>
        THEN /\ Count(text_body, W("ALERTS:")) = 0
             /\ Count(html_body, W("Alerts")) = 0
             /\ Len(SelectSeq(html_body, IsListOpen)) = 1
        ELSE /\ Count(text_body, W("ALERTS:")) = 1
             /\ Count(html_body, W("Alerts")) = 1
             /\ Len(SelectSeq(html_body, IsListOpen)) = 2
             /\ Segments(After(text_body, W("ALERTS:")), W("- "), W(" (")) = EventNames
             /\ LET section == Before(After(html_body, W("Alerts")), Tag("/ul"))
                    names == Segments(section, Tag("b"), Tag("/b"))
                IN  [i \in 1..Len(names) |-> TextContent(names[i])] = EventNames
             /\ Count(After(text_body, W("ALERTS:")), W("...")) = Len(AlertList)

\* bodies made of a response with two alert records
C10_Witness == pc = "send" /\ AlertList = <<AlertB, AlertA>>

-----------------------------------------------------------------------------
(* C11 *)

\* the nine upper-bound edges, in 64ths, and the phase names in the order of
\* the lunar cycle
MoonEdges == <<0, 8, 16, 24, 32, 40, 48, 56, 64>>
MoonNames == <<"New", "Waxing crescent", "First quarter", "Waxing gibbous", "Full",
               "Waning gibbous", "Last quarter", "Waning crescent", "New">>

\* C11: for a phase in [0.0, 1.0] moon_label returns the name paired with the
\* first of the nine edges 0, 0.125, ..., 1.0 that the phase is <= to; phase 0
\* and phase 1.0 are both "New"; the table has exactly nine edge/label pairs.
C11_MoonLabel ==
    /\ Len(moon_steps) = 9
    /\ (pc = "returned" /\ call.fn = "moon_label") =>
          LET phase == call.arg[1]
              i == CHOOSE k \in 1..9 :
                       /\ phase <= MoonEdges[k]
                       /\ \A j \in 1..(k - 1) : phase > MoonEdges[j]
          IN  /\ ret = <<W(MoonNames[i])>>
              /\ phase \in {0, 64} => ret = <<W("New")>>

\* moon_label(0.125), a phase that sits on an edge, has returned
C11_Witness ==
    pc = "returned" /\ call.fn = "moon_label" /\ call.arg = Some(8)
        /\ ret = <<W("Waxing crescent")>>

-----------------------------------------------------------------------------
(* C12 *)

\* a file tool has run to its end, normally or not
ToolEnded == pc \in {"done", "failed"} /\ argv # Idle

\* C12: after a run of file_sorter or media_renamer with --dry-run the file
\* system is what it was before: the same paths, the same directories, the
\* same files with the same contents; no directory was created or removed, no
\* file moved or renamed.
C12_DryRunNoChange ==
    (ToolEnded /\ argv.dry_run) =>
        /\ DOMAIN fs = DOMAIN fs0
        /\ fs = fs0

\* a dry run of file_sorter has listed two moves in a folder that holds an
\* empty directory, which the run without --dry-run would remove
C12_Witness ==
    /\ pc = "done"
    /\ argv # Idle
    /\ argv.tool = "file_sorter.py"
    /\ argv.dry_run
    /\ ~argv.no_empty_dirs
    /\ Len(stdout) >= 2
    /\ \A i \in 1..Len(stdout) : stdout[i].what = "[DRY]"
    /\ EmptyDirs(fs0) # {}

-----------------------------------------------------------------------------
(* C13 *)

\* the files of a file system, at any depth, and the contents they hold
AllFiles(fsys) == {p \in DOMAIN fsys : fsys[p] > 0}
Contents(fsys) == {fsys[p] : p \in AllFiles(fsys)}

\* C13: after a run of media_renamer without --dry-run the folder holds as
\* many files as before and every content it held before, also when two
\* names normalize to the same slug.
C13_NoFileLost ==
    (ToolEnded /\ argv.tool = "media_renamer.py" /\ ~argv.dry_run) =>
        /\ Cardinality(AllFiles(fs)) = Cardinality(AllFiles(fs0))
        /\ Contents(fs) = Contents(fs0)

=============================================================================
